---- MODULE Spec2Model ----
(***************************************************************************)
(* d1-orm: the statement synthesizer (GenerateQuery, queryBuilder.ts) and  *)
(* the Model facade that hands its statements to a D1 executor.            *)
(*                                                                         *)
(* Representation of JavaScript values                                     *)
(*   - a scalar is a record [type, text]: its typeof and its String(...)   *)
(*     rendering, so that 1, "1" and true stay distinct;                   *)
(*   - an optional property or argument is a sequence of length 0          *)
(*     (undefined / not passed) or 1 (the value);                          *)
(*   - an object used as a mapping (where, data, upsertOnlyUpdateData) is  *)
(*     the sequence of its entries [key, value] in insertion order, which  *)
(*     is the order Object.entries/keys/values iterate in;                 *)
(*   - a query is a string.  The TLA+ lexer cannot carry U+0060 inside a   *)
(*     string literal, so Backtick stands for that one character.          *)
(***************************************************************************)
EXTENDS Integers, Sequences, FiniteSets, TLC

VARIABLES
    call,       \* the arguments of the GenerateQuery invocation under study;
                \* for a Model, the operation invoked last with its arguments
                \* and the options object its caller holds
    ret,        \* its outcome: pending, returned {query, bindings}, or thrown
    created,    \* the arguments `new Model(options, columns)` was called with
    model,      \* the Model instance, once its constructor has returned
    executor,   \* the calls the D1 database has received, in order
    outcome,    \* how the latest Model operation ended
    orm,        \* the database `new D1Orm(database)` was given, and the
                \* D1Orm instance once that constructor has returned
    invoked     \* the number of Model operations invoked so far

vars == <<call, ret, created, model, executor, outcome, orm, invoked>>

----------------------------------------------------------------------------
(* Bounds *)

MaxEntries == 2     \* most entries in a data mapping
MaxOrder == 2       \* most elements in an orderBy list
MaxOps == 1         \* most operations invoked on a Model

----------------------------------------------------------------------------
(* JavaScript values *)

Backtick == "^"

Num(n) == [type |-> "number", text |-> ToString(n)]
Str(s) == [type |-> "string", text |-> s]
Bool(b) == [type |-> "boolean", text |-> IF b THEN "true" ELSE "false"]
Undefined == [type |-> "undefined", text |-> "undefined"]

Has(opt) == Len(opt) > 0
Get(opt) == opt[1]
Some(v) == <<v>>
None == <<>>

RECURSIVE Join(_, _)
Join(strs, sep) ==
    IF Len(strs) = 0 THEN ""
    ELSE IF Len(strs) = 1 THEN strs[1]
    ELSE strs[1] \o sep \o Join(Tail(strs), sep)

ObjectKeys(obj) == [i \in 1..Len(obj) |-> obj[i].key]
ObjectValues(obj) == [i \in 1..Len(obj) |-> obj[i].value]

JSONstringify(v) ==
    Str(IF v.type = "string" THEN "\"" \o v.text \o "\"" ELSE v.text)

----------------------------------------------------------------------------
(* queryBuilder.ts *)

QueryType ==
    [SELECT |-> "SELECT", INSERT |-> "INSERT",
     INSERT_OR_REPLACE |-> "INSERT or REPLACE", UPDATE |-> "UPDATE",
     DELETE |-> "DELETE", UPSERT |-> "UPSERT"]

Returned(q, b) ==
    [status |-> "returned", query |-> q, bindings |-> b, message |-> ""]
Thrown(m) ==
    [status |-> "thrown", query |-> "", bindings |-> <<>>, message |-> m]
Pending ==
    [status |-> "pending", query |-> "", bindings |-> <<>>, message |-> ""]

\* Mutation: the NULLS LAST suffix is appended before the DESC suffix.
OrderByItem_suffixSwapped(o) ==
    IF o.kind = "name" THEN "\"" \o o.column \o "\""
    ELSE "\"" \o o.column \o "\""
         \o (IF o.nullLast THEN " NULLS LAST" ELSE "")
         \o (IF o.descending THEN " DESC" ELSE "")

\* One order spec: a bare column name, or {column, descending, nullLast}.
OrderByItem(o) ==
    IF o.kind = "name" THEN "\"" \o o.column \o "\""
    ELSE "\"" \o o.column \o "\""
         \o (IF o.descending THEN " DESC" ELSE "")
         \o (IF o.nullLast THEN " NULLS LAST" ELSE "")

transformOrderBy(orderBy) ==
    IF orderBy.isArray
    THEN Join([i \in 1..Len(orderBy.items) |-> OrderByItem(orderBy.items[i])],
              ", ")
    ELSE OrderByItem(orderBy.items[1])

\* `${key} = ?` for every entry, as pushed onto whereStmt / keys.
KeyEqualsPlaceholder(obj) == [i \in 1..Len(obj) |-> obj[i].key \o " = ?"]

\* Mutation: the whereStmt.length test is missing.
WhereClause_noLengthTest(options) ==
    IF Has(options.where)
    THEN " WHERE " \o Join(KeyEqualsPlaceholder(Get(options.where)), " AND ")
    ELSE ""

\* if (options.where) { ...; if (whereStmt.length) query += ` WHERE ...` }
WhereClause(options) ==
    IF Has(options.where) /\ Len(KeyEqualsPlaceholder(Get(options.where))) > 0
    THEN " WHERE " \o Join(KeyEqualsPlaceholder(Get(options.where)), " AND ")
    ELSE ""

\* Mutation: the values are unshifted instead of pushed.
WhereBindings_unshift(options) ==
    IF Has(options.where)
    THEN [i \in 1..Len(Get(options.where)) |->
             Get(options.where)[Len(Get(options.where)) + 1 - i].value]
    ELSE <<>>

WhereBindings(options) ==
    IF Has(options.where) THEN ObjectValues(Get(options.where)) ELSE <<>>

\* Mutation: only the typeof test, an empty object passes.
NoData_typeofOnly(options) == ~Has(options.data)

\* typeof options.data !== "object" ||
\* Object.getOwnPropertyNames(options.data).length === 0
NoData(options) == ~Has(options.data) \/ Len(Get(options.data)) = 0

\* Mutation: the offset test is not nested in the limit test.
LimitOffsetClause_unnested(options) ==
    (IF Has(options.limit) /\ Get(options.limit) # 0
     THEN " LIMIT " \o ToString(Get(options.limit)) ELSE "")
    \o (IF Has(options.offset) /\ Get(options.offset) # 0
        THEN " OFFSET " \o ToString(Get(options.offset)) ELSE "")

LimitOffsetClause(options) ==
    IF Has(options.limit) /\ Get(options.limit) # 0
    THEN " LIMIT " \o ToString(Get(options.limit))
         \o (IF Has(options.offset) /\ Get(options.offset) # 0
             THEN " OFFSET " \o ToString(Get(options.offset))
             ELSE "")
    ELSE ""

\* Mutation: LIMIT/OFFSET appended before ORDER BY.
GenerateSelect_limitFirst(tableName, options) ==
    Returned("SELECT * FROM " \o Backtick \o tableName \o Backtick
                 \o WhereClause(options)
                 \o LimitOffsetClause(options)
                 \o (IF Has(options.orderBy)
                     THEN " ORDER BY " \o transformOrderBy(Get(options.orderBy))
                     ELSE ""),
             WhereBindings(options))

GenerateSelect(tableName, options) ==
    Returned("SELECT * FROM " \o Backtick \o tableName \o Backtick
                 \o WhereClause(options)
                 \o (IF Has(options.orderBy)
                     THEN " ORDER BY " \o transformOrderBy(Get(options.orderBy))
                     ELSE "")
                 \o LimitOffsetClause(options),
             WhereBindings(options))

\* Mutation: a delete takes the LIMIT and OFFSET clause of a select.
GenerateDelete_limited(tableName, options) ==
    Returned("DELETE FROM " \o Backtick \o tableName \o Backtick
                 \o WhereClause(options) \o LimitOffsetClause(options),
             WhereBindings(options))

GenerateDelete(tableName, options) ==
    Returned("DELETE FROM " \o Backtick \o tableName \o Backtick
                 \o WhereClause(options),
             WhereBindings(options))

\* const column = options.columns?.[key]; column?.json
IsJsonColumn(options, key) ==
    /\ Has(options.columns)
    /\ key \in DOMAIN Get(options.columns)
    /\ Get(options.columns)[key].json

GenerateInsert(type, tableName, options) ==
    IF NoData(options) THEN Thrown("Must provide data to insert")
    ELSE LET data == Get(options.data)
             keys == ObjectKeys(data)
             values == [i \in 1..Len(data) |->
                           IF IsJsonColumn(options, data[i].key)
                           THEN "json(?)" ELSE "?"]
             bindings == [i \in 1..Len(data) |->
                             IF IsJsonColumn(options, data[i].key)
                             THEN JSONstringify(data[i].value)
                             ELSE data[i].value]
         IN Returned(type \o " INTO " \o Backtick \o tableName \o Backtick
                         \o " (" \o Join(keys, ", ") \o ") VALUES ("
                         \o Join(values, ", ") \o ")",
                     bindings)

GenerateUpdate(tableName, options) ==
    IF NoData(options) THEN Thrown("Must provide data to update")
    ELSE LET data == Get(options.data)
         IN Returned("UPDATE " \o Backtick \o tableName \o Backtick
                         \o " SET " \o Join(KeyEqualsPlaceholder(data), ", ")
                         \o WhereClause(options),
                     ObjectValues(data) \o WhereBindings(options))

\* options.x ?? {}
OrEmpty(opt) == IF Has(opt) THEN Get(opt) ELSE <<>>

\* Mutation: an array contributes its first key only.
primaryKeyStr_firstOnly(primaryKeys) == primaryKeys.names[1]

\* Array.isArray(primaryKeys) ? primaryKeys.join(", ") : primaryKeys
primaryKeyStr(primaryKeys) ==
    IF primaryKeys.isArray THEN Join(primaryKeys.names, ", ")
    ELSE primaryKeys.names[1]

\* Mutation: the where values are pushed before the update values.
UpsertBindings_whereFirst(options) ==
    ObjectValues(OrEmpty(options.data))
        \o ObjectValues(OrEmpty(options.where))
        \o ObjectValues(OrEmpty(options.upsertOnlyUpdateData))

\* bindings.push(...Object.values(options.data ?? {}), ...)
UpsertBindings(options) ==
    ObjectValues(OrEmpty(options.data))
        \o ObjectValues(OrEmpty(options.upsertOnlyUpdateData))
        \o ObjectValues(OrEmpty(options.where))

\* Mutation: the where keys are not required.
UpsertInvalid_whereOptional(insertDataKeys, updateDataKeys, whereKeys) ==
    \/ Len(insertDataKeys) = 0
    \/ Len(updateDataKeys) = 0

UpsertInvalid(insertDataKeys, updateDataKeys, whereKeys) ==
    \/ Len(insertDataKeys) = 0
    \/ Len(updateDataKeys) = 0
    \/ Len(whereKeys) = 0

GenerateUpsert(tableName, options, primaryKeys) ==
    LET insertDataKeys == ObjectKeys(OrEmpty(options.data))
        updateDataKeys == ObjectKeys(OrEmpty(options.upsertOnlyUpdateData))
        whereKeys == ObjectKeys(OrEmpty(options.where))
        bindings == UpsertBindings(options)
    IN IF UpsertInvalid(insertDataKeys, updateDataKeys, whereKeys)
       THEN Thrown("Must provide data to insert with, data to update with, and where keys in Upsert")
       ELSE Returned(
                "INSERT INTO " \o Backtick \o tableName \o Backtick
                    \o " (" \o Join(insertDataKeys, ", ") \o ")"
                    \o " VALUES ("
                    \o Join([i \in 1..Len(insertDataKeys) |-> "?"], ", ")
                    \o ")"
                    \o " ON CONFLICT (" \o primaryKeyStr(primaryKeys)
                    \o ") DO UPDATE SET"
                    \o " "
                    \o Join([i \in 1..Len(updateDataKeys) |->
                                updateDataKeys[i] \o " = ?"], ", ")
                    \o " WHERE "
                    \o Join([i \in 1..Len(whereKeys) |->
                                whereKeys[i] \o " = ?"], " AND "),
                bindings)

EmptyOptions ==
    [where |-> None, limit |-> None, offset |-> None, orderBy |-> None,
     data |-> None, upsertOnlyUpdateData |-> None, columns |-> None]

DefaultPrimaryKeys == [isArray |-> FALSE, names |-> <<"id">>]

\* Mutation: the length test is missing.
InvalidTableName_typeofOnly(tableName) == tableName.type # "string"

\* typeof tableName !== "string" || !tableName.length
InvalidTableName(tableName) ==
    tableName.type # "string" \/ Len(tableName.text) = 0

\* type, tableName: scalars; optionsArg, primaryKeysArg: optional arguments.
GenerateQuery(type, tableName, optionsArg, primaryKeysArg) ==
    LET options == IF Has(optionsArg) THEN Get(optionsArg) ELSE EmptyOptions
        primaryKeys == IF Has(primaryKeysArg) THEN Get(primaryKeysArg)
                       ELSE DefaultPrimaryKeys
    IN IF InvalidTableName(tableName)
       THEN Thrown("Invalid table name")
       ELSE CASE type = QueryType.SELECT ->
                     GenerateSelect(tableName.text, options)
              [] type = QueryType.DELETE ->
                     GenerateDelete(tableName.text, options)
              [] type \in {QueryType.INSERT_OR_REPLACE, QueryType.INSERT} ->
                     GenerateInsert(type, tableName.text, options)
              [] type = QueryType.UPDATE ->
                     GenerateUpdate(tableName.text, options)
              [] type = QueryType.UPSERT ->
                     GenerateUpsert(tableName.text, options, primaryKeys)
              [] OTHER -> Thrown("Invalid QueryType provided")

----------------------------------------------------------------------------
(* database.ts, model.ts *)

\* Boolean(v) for a scalar.
Truthy(v) ==
    CASE v.type = "string" -> v.text # ""
      [] v.type = "number" -> v.text # "0"
      [] v.type = "boolean" -> v.text = "true"
      [] OTHER -> FALSE

\* Array.prototype.find: the first element whose index is in hits (the
\* indices at which the callback returns true), else undefined.
Find(arr, hits) ==
    IF hits = {} THEN Undefined
    ELSE arr[CHOOSE i \in hits : \A j \in hits : i <= j]

\* arr.filter(Boolean)
FilterBoolean(arr) == SelectSeq(arr, Truthy)

\* The text an array element contributes to Array.prototype.join.
JoinText(v) == IF v.type = "undefined" THEN "" ELSE v.text

DatabaseMethods == {"prepare", "dump", "batch", "exec"}

\* !!database && ["prepare", "dump", "batch", "exec"].every(x => typeof database[x] === "function")
isDatabase(database) ==
    database.class # "undefined" /\ DatabaseMethods \subseteq database.methods

\* A D1Orm instance carries the four methods of its class.
D1OrmInstance == [class |-> "D1Orm", methods |-> DatabaseMethods]

\* Mutation: the four methods are tested with `some` instead of `every`.
D1OrmConstructor_some(database) ==
    IF database.class = "undefined" \/ database.methods \cap DatabaseMethods = {}
    THEN [message |-> "Invalid database, should contain prepare, dump, batch, and exec methods",
          instance |-> <<>>]
    ELSE [message |-> "", instance |-> <<D1OrmInstance>>]

\* new D1Orm(database)
D1OrmConstructor(database) ==
    IF ~isDatabase(database)
    THEN [message |-> "Invalid database, should contain prepare, dump, batch, and exec methods",
          instance |-> <<>>]
    ELSE [message |-> "", instance |-> <<D1OrmInstance>>]

\* No `new D1Orm` has been evaluated yet.
NoOrm == [database |-> <<>>, instance |-> <<>>]

DataTypes ==
    [INTEGER |-> "integer", TEXT |-> "text", REAL |-> "real", BLOB |-> "blob",
     BOOLEAN |-> "boolean"]

\* x in columns
InColumns(x, columns) == \E i \in 1..Len(columns) : columns[i].key = x.text

Constructed(instance) == [message |-> "", instance |-> Some(instance)]
Rejected(m) == [message |-> m, instance |-> None]

\* if (this.#autoIncrementColumn), if (!this.#autoIncrementColumn)
AutoIncrementSet(autoIncrementColumn) ==
    Has(autoIncrementColumn) /\ Truthy(Get(autoIncrementColumn))

\* The columns named by the auto-increment option: this.columns[autoIncrement]
AutoIncrementColumns(autoIncrementColumn, columns) ==
    {columns[i].value :
        i \in {j \in 1..Len(columns) :
                  columns[j].key = Get(autoIncrementColumn).text}}

\* Mutation: the column type is checked before the primary key checks.
AutoIncrementError_typeFirst(primaryKeys, autoIncrementColumn, columns) ==
    IF ~AutoIncrementSet(autoIncrementColumn) THEN ""
    ELSE IF Get(autoIncrementColumn).type # "string"
    THEN "Options.autoIncrement was provided, but was not a string"
    ELSE IF AutoIncrementColumns(autoIncrementColumn, columns) = {}
    THEN "Options.autoIncrement was provided, but is not a column"
    ELSE IF \E c \in AutoIncrementColumns(autoIncrementColumn, columns) :
               c.type # DataTypes.INTEGER
    THEN "Options.autoIncrement was provided, but is not an integer column"
    ELSE IF ~\E i \in 1..Len(primaryKeys) :
                primaryKeys[i] = Get(autoIncrementColumn)
    THEN "Options.autoIncrement was provided, but was not a primary key"
    ELSE IF Len(primaryKeys) > 1
    THEN "Options.autoIncrement was provided, but there are multiple primary keys"
    ELSE ""

\* The autoIncrement checks of the constructor: the message of the first
\* that throws, "" when none does.
AutoIncrementError(primaryKeys, autoIncrementColumn, columns) ==
    IF ~AutoIncrementSet(autoIncrementColumn) THEN ""
    ELSE IF Get(autoIncrementColumn).type # "string"
    THEN "Options.autoIncrement was provided, but was not a string"
    ELSE IF ~\E i \in 1..Len(primaryKeys) :
                primaryKeys[i] = Get(autoIncrementColumn)
    THEN "Options.autoIncrement was provided, but was not a primary key"
    ELSE IF Len(primaryKeys) > 1
    THEN "Options.autoIncrement was provided, but there are multiple primary keys"
    ELSE IF AutoIncrementColumns(autoIncrementColumn, columns) = {}
    THEN "Options.autoIncrement was provided, but is not a column"
    ELSE IF \E c \in AutoIncrementColumns(autoIncrementColumn, columns) :
               c.type # DataTypes.INTEGER
    THEN "Options.autoIncrement was provided, but is not an integer column"
    ELSE ""

\* new Model(options, columns)
ModelConstructor(options, columns) ==
    LET primaryKeys == IF options.primaryKeys.isArray
                       THEN options.primaryKeys.items
                       ELSE FilterBoolean(options.primaryKeys.items)
        autoIncrementColumn == options.autoIncrement
        uniqueKeys == OrEmpty(options.uniqueKeys)
        notNames == {i \in 1..Len(primaryKeys) :
                        primaryKeys[i].type # "string"
                            \/ Len(primaryKeys[i].text) = 0}
        notColumns == {i \in 1..Len(primaryKeys) :
                          ~InColumns(primaryKeys[i], Get(columns))}
    IN IF ~(options.D1Orm.class = "D1Orm") \/ ~isDatabase(options.D1Orm)
       THEN Rejected("Options.D1Orm is not an instance of D1Orm")
       ELSE IF options.tableName.type # "string"
                  \/ Len(options.tableName.text) = 0
       THEN Rejected("Options.tableName must be a string")
       ELSE IF Len(primaryKeys) = 0 \/ Truthy(Find(primaryKeys, notNames))
       THEN Rejected("Options.primaryKeys must be a string or an array of strings")
       ELSE IF ~Has(columns)
       THEN Rejected("Model columns must be defined")
       ELSE IF Len(Get(columns)) = 0
       THEN Rejected("Model columns cannot be empty")
       ELSE IF Truthy(Find(primaryKeys, notColumns))
       THEN Rejected("Options.primaryKeys includes a column that does not exist")
       ELSE IF AutoIncrementError(primaryKeys, autoIncrementColumn,
                                  Get(columns)) # ""
       THEN Rejected(AutoIncrementError(primaryKeys, autoIncrementColumn,
                                        Get(columns)))
       ELSE Constructed([D1Orm |-> options.D1Orm,
                         tableName |-> options.tableName,
                         columns |-> Get(columns),
                         primaryKeys |-> primaryKeys,
                         autoIncrementColumn |-> autoIncrementColumn,
                         uniqueKeys |-> uniqueKeys])

\* `${columnName} ${column.type}` and the constraints of one column.
ColumnDefinition(m, entry) ==
    entry.key \o " " \o entry.value.type
    \o (IF Has(m.autoIncrementColumn)
           /\ Get(m.autoIncrementColumn) = Str(entry.key)
        THEN " PRIMARY KEY AUTOINCREMENT" ELSE "")
    \o (IF entry.value.notNull THEN " NOT NULL" ELSE "")
    \o (IF Has(entry.value.defaultValue)
        THEN " DEFAULT "
             \o (IF Get(entry.value.defaultValue).type = "string"
                 THEN "\"" \o Get(entry.value.defaultValue).text \o "\""
                 ELSE Get(entry.value.defaultValue).text)
        ELSE "")

\* Mutation: the table-level clause is pushed whether or not an
\* auto-increment column is set.
PrimaryKeyClause_always(m) ==
    <<"PRIMARY KEY ("
        \o Join([i \in 1..Len(m.primaryKeys) |-> JoinText(m.primaryKeys[i])],
                ", ")
        \o ")">>

\* if (!this.#autoIncrementColumn) columnDefinition.push(`PRIMARY KEY (...)`)
PrimaryKeyClause(m) ==
    IF ~AutoIncrementSet(m.autoIncrementColumn)
    THEN <<"PRIMARY KEY ("
             \o Join([i \in 1..Len(m.primaryKeys) |->
                         JoinText(m.primaryKeys[i])], ", ")
             \o ")">>
    ELSE <<>>

\* for (const i of this.uniqueKeys) columnDefinition.push(`UNIQUE (...)`)
UniqueClauses(m) ==
    [i \in 1..Len(m.uniqueKeys) |->
        "UNIQUE (" \o Join(m.uniqueKeys[i], ", ") \o ")"]

\* get createTableDefinition()
createTableDefinition(m) ==
    "CREATE TABLE " \o Backtick \o m.tableName.text \o Backtick \o " ("
    \o Join([i \in 1..Len(m.columns) |-> ColumnDefinition(m, m.columns[i])]
                \o PrimaryKeyClause(m) \o UniqueClauses(m), ", ")
    \o ");"

\* The calls one statement makes on the database behind the D1Orm:
\* this.#D1Orm.prepare(statement.query).bind(...statement.bindings).run()
Prepare(q) == [method |-> "prepare", query |-> q, bindings |-> <<>>]
Bind(b) == [method |-> "bind", query |-> "", bindings |-> b]
Run == [method |-> "run", query |-> "", bindings |-> <<>>]

\* Mutation: Upsert does not pass this.primaryKeys.
PrimaryKeysOf_notPassed(m) == None

\* this.primaryKeys as the primaryKeys argument of GenerateQuery
PrimaryKeysOf(m) ==
    Some([isArray |-> TRUE,
          names |-> [i \in 1..Len(m.primaryKeys) |-> JoinText(m.primaryKeys[i])]])

\* The statement Model.Upsert(options) generates.
UpsertStatement(m, options) ==
    GenerateQuery(QueryType.UPSERT, m.tableName, Some(options), PrimaryKeysOf(m))

Idle == [op |-> "", status |-> "none", message |-> ""]
Resolved(op) == [op |-> op, status |-> "resolved", message |-> ""]
Failed(op, m) == [op |-> op, status |-> "rejected", message |-> m]

----------------------------------------------------------------------------
(* The calls under study *)

DataKeys == {"id", "name", "flag"}
WhereKeys == {"id", "name"}

\* The value each mapping of a call gives to a column.
ValueOf(group, k) ==
    CASE group = "data" ->
            (CASE k = "id" -> Num(1) [] k = "name" -> Str("test")
               [] OTHER -> Bool(TRUE))
      [] group = "upsertOnlyUpdateData" ->
            (CASE k = "id" -> Num(2) [] k = "name" -> Str("other")
               [] OTHER -> Bool(FALSE))
      [] OTHER ->
            (CASE k = "id" -> Num(3) [] k = "name" -> Str("test")
               [] OTHER -> Bool(TRUE))

\* The key orders of the objects with at most n distinct keys out of K.
KeyOrders(K, n) ==
    UNION {{s \in [1..m -> K] : \A i, j \in 1..m : i # j => s[i] # s[j]} :
           m \in 0..n}

Entries(s, group) ==
    [i \in 1..Len(s) |-> [key |-> s[i], value |-> ValueOf(group, s[i])]]

Optional(S) == {None} \cup {Some(v) : v \in S}

DataObjects == {Entries(s, "data") : s \in KeyOrders(DataKeys, MaxEntries)}
UpdateObjects ==
    {Entries(s, "upsertOnlyUpdateData") : s \in KeyOrders(WhereKeys, MaxEntries)}
WhereObjects == {Entries(s, "where") : s \in KeyOrders(WhereKeys, MaxEntries)}

OrderName(c) ==
    [kind |-> "name", column |-> c, descending |-> FALSE, nullLast |-> FALSE]
OrderObject(c, d, n) ==
    [kind |-> "object", column |-> c, descending |-> d, nullLast |-> n]

OrderItems == {OrderObject("id", TRUE, TRUE), OrderName("name")}

OrderBys ==
    {[isArray |-> FALSE, items |-> <<OrderName("id")>>],
     [isArray |-> FALSE, items |-> <<OrderObject("name", TRUE, FALSE)>>]}
    \cup {[isArray |-> TRUE, items |-> s] :
          s \in UNION {[1..m -> OrderItems] : m \in 0..MaxOrder}}

Limits == {0, 10}
Offsets == {0, 5}

ColumnSets ==
    {[k \in DataKeys |->
         [type |-> CASE k = "id" -> DataTypes.INTEGER
                     [] k = "flag" -> DataTypes.BOOLEAN
                     [] OTHER -> DataTypes.TEXT,
          json |-> k = "name"]]}

PrimaryKeyArgs ==
    {[isArray |-> FALSE, names |-> <<"name">>],
     [isArray |-> TRUE, names |-> <<"name", "id">>]}

\* Clause bundles that vary the clauses a select reads, and clause bundles
\* that vary the clauses the writing kinds read; every kind is called with
\* both families.
ReadBundles ==
    [where : Optional(WhereObjects), limit : Optional(Limits),
     offset : Optional(Offsets), orderBy : Optional(OrderBys),
     data : Optional({Entries(<<"id">>, "data")}),
     upsertOnlyUpdateData : {None}, columns : {None}]

WriteBundles ==
    [where : Optional(WhereObjects), limit : Optional({10}),
     offset : Optional({5}),
     orderBy : Optional({[isArray |-> FALSE, items |-> <<OrderName("id")>>]}),
     data : Optional(DataObjects),
     upsertOnlyUpdateData : Optional(UpdateObjects),
     columns : Optional(ColumnSets)]

OptionBundles == ReadBundles \cup WriteBundles

Types ==
    {QueryType.SELECT, QueryType.INSERT, QueryType.INSERT_OR_REPLACE,
     QueryType.UPDATE, QueryType.DELETE, QueryType.UPSERT, "INVALID"}

ValidTable == Str("test")
InvalidTables == {Str(""), Num(1), Undefined}

Calls ==
    [type : Types, tableName : {ValidTable},
     options : {Some(o) : o \in OptionBundles},
     primaryKeys : Optional(PrimaryKeyArgs)]
    \cup [type : Types, tableName : {ValidTable} \cup InvalidTables,
          options : {None}, primaryKeys : Optional(PrimaryKeyArgs)]
    \cup [type : Types, tableName : InvalidTables,
          options : {Some(o) : o \in
                       {b \in [where : Optional({Entries(<<"id">>, "where")}),
                               limit : {None}, offset : {None}, orderBy : {None},
                               data : Optional({Entries(<<"id">>, "data")}),
                               upsertOnlyUpdateData :
                                   Optional({Entries(<<"id">>, "upsertOnlyUpdateData")}),
                               columns : {None}] : TRUE}},
          primaryKeys : {None}]

\* Models and the clause bundles their operations are given.
NoCall == [type |-> "", tableName |-> Undefined, options |-> None,
           primaryKeys |-> None, args |-> <<>>]

PrimaryKeyOptions ==
    {[isArray |-> FALSE, items |-> <<Str("id")>>],
     [isArray |-> FALSE, items |-> <<Undefined>>],
     [isArray |-> TRUE, items |-> <<Str("id")>>],
     [isArray |-> TRUE, items |-> <<Str("name"), Str("id")>>],
     [isArray |-> TRUE, items |-> <<Str("id"), Str("name")>>],
     [isArray |-> TRUE, items |-> <<Str("id"), Str("missing")>>],
     [isArray |-> TRUE, items |-> <<Num(1)>>],
     [isArray |-> TRUE, items |-> <<Str("")>>],
     [isArray |-> TRUE, items |-> <<>>]}

Column(t) == [type |-> t, notNull |-> FALSE, defaultValue |-> None]

ColumnWith(t, notNull, defaultValue) ==
    [type |-> t, notNull |-> notNull, defaultValue |-> defaultValue]

ColumnMaps ==
    {<<[key |-> "id", value |-> Column(DataTypes.INTEGER)],
       [key |-> "name", value |-> Column(DataTypes.TEXT)],
       [key |-> "flag", value |-> Column(DataTypes.BOOLEAN)]>>,
     <<[key |-> "id", value |-> Column(DataTypes.TEXT)],
       [key |-> "name", value |-> Column(DataTypes.TEXT)]>>,
     <<[key |-> "id", value |-> Column(DataTypes.INTEGER)],
       [key |-> "name",
        value |-> ColumnWith(DataTypes.TEXT, TRUE, Some(Str("test")))],
       [key |-> "is_admin",
        value |-> ColumnWith(DataTypes.BOOLEAN, FALSE, Some(Bool(TRUE)))]>>,
     <<[key |-> "id",
        value |-> ColumnWith(DataTypes.INTEGER, TRUE, Some(Num(1)))],
       [key |-> "name", value |-> Column(DataTypes.TEXT)]>>,
     <<>>}

\* The options new Model is given; withRowId is an option its callers pass
\* (part_001:36, 241) and the constructor never reads.
ModelOptions ==
    [D1Orm : {D1OrmInstance, [class |-> "Object", methods |-> {}],
              [class |-> "undefined", methods |-> {}]},
     tableName : {Str("users"), Str("")},
     primaryKeys : PrimaryKeyOptions,
     autoIncrement : Optional({Str("id"), Str("name"), Num(1), Str("")}),
     uniqueKeys : Optional({<<<<"name">>>>, <<<<"id">>, <<"id", "missing">>>>}),
     withRowId : Optional({Bool(TRUE)})]

ModelArgs == [options : ModelOptions, columns : Optional(ColumnMaps)]

ModelBundles ==
    [where : Optional({Entries(<<"id">>, "where")}),
     limit : {None}, offset : {None}, orderBy : {None},
     data : Optional({Entries(o, "data") : o \in KeyOrders({"id", "name"}, 1)}),
     upsertOnlyUpdateData :
         Optional({Entries(<<"name">>, "upsertOnlyUpdateData")}),
     columns : {None}]

Init ==
    /\ call \in Calls
    /\ ret = Pending
    /\ created = None
    /\ model = None
    /\ executor = <<>>
    /\ outcome = Idle
    /\ orm = NoOrm
    /\ invoked = 0

\* The caller invokes GenerateQuery with the arguments of `call`.
Generate ==
    /\ ret.status = "pending"
    /\ ret' = GenerateQuery(call.type, call.tableName, call.options,
                            call.primaryKeys)
    /\ UNCHANGED <<call, created, model, executor, outcome, orm, invoked>>

Next == Generate

Spec == Init /\ [][Next]_vars

ModelInit ==
    /\ call = NoCall
    /\ ret = Pending
    /\ created = None
    /\ model = None
    /\ executor = <<>>
    /\ outcome = Idle
    /\ orm = NoOrm
    /\ invoked = 0

\* The databases new D1Orm is given: undefined, and every object in which
\* each of prepare, dump, batch and exec is a function (methods), holds a
\* value that is not a function (others), or is missing.
Databases ==
    {[class |-> "undefined", methods |-> {}, others |-> {}]}
    \cup {d \in [class : {"Object"}, methods : SUBSET DatabaseMethods,
                 others : SUBSET DatabaseMethods] :
             d.methods \cap d.others = {}}

\* new D1Orm(database); an exception it throws ends the program.
NewD1Orm ==
    /\ orm = NoOrm
    /\ invoked = 0
    /\ created = None
    /\ \E database \in Databases :
          /\ orm' = [database |-> Some(database),
                     instance |-> D1OrmConstructor(database).instance]
          /\ outcome' = IF Has(D1OrmConstructor(database).instance)
                        THEN Resolved("new D1Orm")
                        ELSE Failed("new D1Orm",
                                    D1OrmConstructor(database).message)
    /\ UNCHANGED <<call, ret, created, model, executor, invoked>>

\* new Model(options, columns), with the D1Orm instance if there is one;
\* it does not run once new D1Orm has thrown.
Construct ==
    /\ created = None
    /\ outcome.status # "rejected"
    /\ \E args \in ModelArgs :
          /\ args.options.D1Orm = D1OrmInstance => Has(orm.instance)
          /\ created' = Some(args)
          /\ model' = ModelConstructor(args.options, args.columns).instance
          /\ outcome' =
                IF Has(ModelConstructor(args.options, args.columns).instance)
                THEN Resolved("new Model")
                ELSE Failed("new Model",
                            ModelConstructor(args.options, args.columns).message)
    /\ UNCHANGED <<call, ret, executor, orm, invoked>>

\* A Model operation may be invoked while fewer than MaxOps have been.
Budget == invoked < MaxOps

\* The operation invoked last and its arguments; call.options stays the
\* options object the caller holds.
Invoked(op, args) == [call EXCEPT !.type = op, !.args = args]

\* await model.Upsert(options)
Upsert ==
    /\ Has(model)
    /\ Budget
    /\ \E options \in ModelBundles :
          LET statement == UpsertStatement(Get(model), options)
          IN /\ call' = Invoked("Upsert", [options |-> options])
             /\ IF statement.status = "thrown"
                THEN /\ outcome' = Failed("Upsert", statement.message)
                     /\ UNCHANGED executor
                ELSE /\ executor' = executor \o <<Prepare(statement.query),
                                                  Bind(statement.bindings), Run>>
                     /\ outcome' = Resolved("Upsert")
    /\ invoked' = invoked + 1
    /\ UNCHANGED <<ret, created, model, orm>>

\* model.createTableDefinition is read; the string is held in ret.query.
ReadCreateTableDefinition ==
    /\ Has(model)
    /\ ret.status = "pending"
    /\ ret' = Returned(createTableDefinition(Get(model)), <<>>)
    /\ UNCHANGED <<call, created, model, executor, outcome, orm, invoked>>

ModelNext == NewD1Orm \/ Construct \/ Upsert \/ ReadCreateTableDefinition

ModelSpec == ModelInit /\ [][ModelNext]_vars

\* The order specs transformOrderBy is called with on its own: every bare
\* name and every {column, descending, nullLast} over two columns, alone or
\* in a list of at most MaxOrder elements (repetitions included).
OrderColumns == {"id", "id2"}

AllOrderItems ==
    {OrderName(c) : c \in OrderColumns}
    \cup {OrderObject(c, d, n) : c \in OrderColumns, d \in BOOLEAN, n \in BOOLEAN}

TransformInputs ==
    {[isArray |-> FALSE, items |-> <<o>>] : o \in AllOrderItems}
    \cup {[isArray |-> TRUE, items |-> s] :
          s \in UNION {[1..m -> AllOrderItems] : m \in 0..MaxOrder}}

OrderCall(o) ==
    [type |-> "transformOrderBy", tableName |-> Undefined,
     options |-> Some([EmptyOptions EXCEPT !.orderBy = Some(o)]),
     primaryKeys |-> None]

OrderInit ==
    /\ call \in {OrderCall(o) : o \in TransformInputs}
    /\ ret = Pending
    /\ created = None
    /\ model = None
    /\ executor = <<>>
    /\ outcome = Idle
    /\ orm = NoOrm
    /\ invoked = 0

\* transformOrderBy(orderBy); the returned string is held in ret.query.
Transform ==
    /\ ret.status = "pending"
    /\ ret' = Returned(transformOrderBy(Get(Get(call.options).orderBy)), <<>>)
    /\ UNCHANGED <<call, created, model, executor, outcome, orm, invoked>>

OrderNext == Transform

OrderSpec == OrderInit /\ [][OrderNext]_vars

----------------------------------------------------------------------------
(* The operations of a constructed Model *)

\* Further calls the executor receives: exec on the database, first and all
\* on a prepared statement (first with the result the executor gives it),
\* batch with the prepared statements it is handed.
Exec(q) == [method |-> "exec", query |-> q, bindings |-> <<>>]
StatementFirst(result) ==
    [method |-> "first", query |-> "", bindings |-> <<>>, result |-> result]
StatementAll == [method |-> "all", query |-> "", bindings |-> <<>>]
\* Mutation: batch receives the statements last row first.
Batch_reversed(statements) ==
    [method |-> "batch", query |-> "", bindings |-> <<>>,
     statements |-> [i \in 1..Len(statements) |->
                        statements[Len(statements) + 1 - i]]]

Batch(statements) ==
    [method |-> "batch", query |-> "", bindings |-> <<>>,
     statements |-> statements]

\* What first() hands back: a row, null, or an error with a message.
Row == [type |-> "object", text |-> "[object Object]"]
Null == [type |-> "object", text |-> "null"]
Gives(value) == [status |-> "resolved", value |-> value, message |-> ""]
Throws_(message) ==
    [status |-> "rejected", value |-> Undefined, message |-> message]
FirstResults ==
    {Gives(Row), Gives(Null), Throws_("D1_NORESULTS"), Throws_("D1_ERROR"),
     Throws_("D1_NORESULTS: no rows")}

ResolvedWith(op, value) ==
    [op |-> op, status |-> "resolved", message |-> "", value |-> value]

\* Mutation: the DROP TABLE is placed after the CREATE TABLE text.
CreateTableStatement_dropLast(m, strategy) ==
    IF strategy = "force"
    THEN createTableDefinition(m) \o "\n" \o "DROP TABLE IF EXISTS "
             \o Backtick \o m.tableName.text \o Backtick
    ELSE createTableDefinition(m)

\* let statement = this.createTableDefinition;
\* if (strategy === "force") statement = `DROP TABLE IF EXISTS ...\n${statement}`
CreateTableStatement(m, strategy) ==
    IF strategy = "force"
    THEN "DROP TABLE IF EXISTS " \o Backtick \o m.tableName.text \o Backtick
             \o "\n" \o createTableDefinition(m)
    ELSE createTableDefinition(m)

DropTableStatement(m, silent) ==
    IF silent THEN "DROP TABLE IF EXISTS " \o m.tableName.text \o ";"
    ELSE "DROP TABLE " \o m.tableName.text \o ";"

\* GenerateQuery(qt, this.tableName, { data })
InsertStatement(m, data, orReplace) ==
    GenerateQuery(IF orReplace THEN QueryType.INSERT_OR_REPLACE
                  ELSE QueryType.INSERT,
                  m.tableName, Some([EmptyOptions EXCEPT !.data = Some(data)]),
                  None)

\* Object.assign(options, { limit: 1 }): the caller's object afterwards.
FirstOptions(options) == [options EXCEPT !.limit = Some(1)]

SelectStatement(m, options) ==
    GenerateQuery(QueryType.SELECT, m.tableName, Some(options), None)
DeleteStatement(m, options) ==
    GenerateQuery(QueryType.DELETE, m.tableName, Some(options), None)
UpdateStatement(m, options) ==
    GenerateQuery(QueryType.UPDATE, m.tableName, Some(options), None)

\* Mutation: the statement is executed without its bindings.
Sent_unbound(statement, execution) ==
    <<Prepare(statement.query), execution>>

\* prepare(statement.query).bind(...statement.bindings) and the method that
\* executes it.
Sent(statement, execution) ==
    <<Prepare(statement.query), Bind(statement.bindings), execution>>

\* Mutation: a NORESULTS error is recognised by its prefix.
FirstOutcome_prefix(result) ==
    IF result.status = "resolved" THEN ResolvedWith("First", result.value)
    ELSE IF Len(result.message) >= 12
               /\ SubSeq(result.message, 1, 12) = "D1_NORESULTS"
    THEN ResolvedWith("First", Null)
    ELSE [op |-> "First", status |-> "rejected", message |-> result.message]

\* try { return await ...first() } catch (e) { ... "D1_NORESULTS" ... }
FirstOutcome(result) ==
    IF result.status = "resolved" THEN ResolvedWith("First", result.value)
    ELSE IF result.message = "D1_NORESULTS" THEN ResolvedWith("First", Null)
    ELSE [op |-> "First", status |-> "rejected", message |-> result.message]

\* The models whose operations are studied, and the options objects their
\* caller holds.
MaxRows == 2

OpsModelArgs ==
    {[options |-> [D1Orm |-> D1OrmInstance, tableName |-> Str("users"),
                   primaryKeys |-> [isArray |-> FALSE, items |-> <<Str("id")>>],
                   autoIncrement |-> Some(Str("id")), uniqueKeys |-> None,
                   withRowId |-> None],
      columns |-> Some(<<[key |-> "id", value |-> Column(DataTypes.INTEGER)],
                         [key |-> "name", value |-> Column(DataTypes.TEXT)],
                         [key |-> "flag", value |-> Column(DataTypes.BOOLEAN)]>>)],
     [options |-> [D1Orm |-> D1OrmInstance, tableName |-> Str("users"),
                   primaryKeys |-> [isArray |-> TRUE,
                                    items |-> <<Str("name"), Str("id")>>],
                   autoIncrement |-> None,
                   uniqueKeys |-> Some(<<<<"name">>>>), withRowId |-> None],
      columns |-> Some(<<[key |-> "id", value |-> Column(DataTypes.INTEGER)],
                         [key |-> "name",
                          value |-> ColumnWith(DataTypes.TEXT, TRUE,
                                               Some(Str("test")))],
                         [key |-> "is_admin",
                          value |-> ColumnWith(DataTypes.BOOLEAN, FALSE,
                                               Some(Bool(TRUE)))]>>)]}

CallerOptions ==
    [where : Optional({Entries(o, "where") : o \in KeyOrders({"id"}, 1)}),
     limit : Optional({10}), offset : {None},
     orderBy : Optional({[isArray |-> FALSE, items |-> <<OrderName("id")>>]}),
     data : {None}, upsertOnlyUpdateData : {None}, columns : {None}]

Rows == {Entries(o, "data") : o \in KeyOrders({"id", "name"}, 1)}
RowLists == UNION {[1..n -> Rows] : n \in 0..MaxRows}

UpdateBundles ==
    [where : Optional({Entries(<<"id">>, "where")}),
     limit : {None}, offset : {None}, orderBy : {None},
     data : Optional(Rows), upsertOnlyUpdateData : {None}, columns : {None}]

ValidDatabase ==
    [class |-> "Object", methods |-> DatabaseMethods, others |-> {}]

OpsInit ==
    /\ \E args \in OpsModelArgs :
          /\ created = Some(args)
          /\ model = ModelConstructor(args.options, args.columns).instance
    /\ call \in {[NoCall EXCEPT !.options = Some(o)] : o \in CallerOptions}
    /\ ret = Pending
    /\ executor = <<>>
    /\ outcome = Resolved("new Model")
    /\ orm = [database |-> Some(ValidDatabase),
              instance |-> D1OrmConstructor(ValidDatabase).instance]
    /\ invoked = 0

\* await model.CreateTable(options)
CreateTable ==
    /\ Has(model)
    /\ Budget
    /\ \E options \in Optional({"default", "force", "alter"}) :
          LET strategy == IF Has(options) THEN Get(options) ELSE "default"
          IN /\ call' = Invoked("CreateTable", [strategy |-> strategy])
             /\ IF strategy = "alter"
                THEN /\ outcome' = Failed("CreateTable",
                                          "Alter strategy is not implemented")
                     /\ UNCHANGED executor
                ELSE /\ executor' =
                           executor
                               \o <<Exec(CreateTableStatement(Get(model), strategy))>>
                     /\ outcome' = Resolved("CreateTable")
    /\ invoked' = invoked + 1
    /\ UNCHANGED <<ret, created, model, orm>>

\* Mutation: dropping the table clears the model's table name.
DropTable_renames ==
    /\ Has(model)
    /\ Budget
    /\ \E silent \in BOOLEAN :
          /\ call' = Invoked("DropTable", [silent |-> silent])
          /\ executor' = executor \o <<Exec(DropTableStatement(Get(model), silent))>>
    /\ outcome' = Resolved("DropTable")
    /\ invoked' = invoked + 1
    /\ model' = Some([Get(model) EXCEPT !.tableName = Str("")])
    /\ UNCHANGED <<ret, created, orm>>

\* await model.DropTable(silent)
DropTable ==
    /\ Has(model)
    /\ Budget
    /\ \E silent \in BOOLEAN :
          /\ call' = Invoked("DropTable", [silent |-> silent])
          /\ executor' = executor \o <<Exec(DropTableStatement(Get(model), silent))>>
    /\ outcome' = Resolved("DropTable")
    /\ invoked' = invoked + 1
    /\ UNCHANGED <<ret, created, model, orm>>

\* await model.InsertOne(data, orReplace)
InsertOne ==
    /\ Has(model)
    /\ Budget
    /\ \E data \in Rows, orReplace \in BOOLEAN :
          LET statement == InsertStatement(Get(model), data, orReplace)
          IN /\ call' = Invoked("InsertOne",
                                [data |-> data, orReplace |-> orReplace])
             /\ IF statement.status = "thrown"
                THEN /\ outcome' = Failed("InsertOne", statement.message)
                     /\ UNCHANGED executor
                ELSE /\ executor' = executor \o Sent(statement, Run)
                     /\ outcome' = Resolved("InsertOne")
    /\ invoked' = invoked + 1
    /\ UNCHANGED <<ret, created, model, orm>>

\* await model.InsertMany(data, orReplace): each row is prepared and bound in
\* turn, a row whose statement cannot be generated ends the loop with its
\* error, and batch is called once the loop is over.
InsertMany ==
    /\ Has(model)
    /\ Budget
    /\ \E data \in RowLists, orReplace \in BOOLEAN :
          LET stmts == [i \in 1..Len(data) |->
                           InsertStatement(Get(model), data[i], orReplace)]
              thrown == {i \in 1..Len(data) : stmts[i].status = "thrown"}
              done == IF thrown = {} THEN Len(data)
                      ELSE (CHOOSE i \in thrown : \A j \in thrown : i <= j) - 1
              prepared == [j \in 1..(2 * done) |->
                              IF j % 2 = 1
                              THEN Prepare(stmts[(j + 1) \div 2].query)
                              ELSE Bind(stmts[j \div 2].bindings)]
          IN /\ call' = Invoked("InsertMany",
                                [data |-> data, orReplace |-> orReplace])
             /\ IF thrown # {}
                THEN /\ outcome' = Failed("InsertMany", stmts[done + 1].message)
                     /\ executor' = executor \o prepared
                ELSE /\ executor' =
                           executor \o prepared
                               \o <<Batch([i \in 1..Len(data) |->
                                              [query |-> stmts[i].query,
                                               bindings |-> stmts[i].bindings]])>>
                     /\ outcome' = Resolved("InsertMany")
    /\ invoked' = invoked + 1
    /\ UNCHANGED <<ret, created, model, orm>>

\* await model.First(options), with the options object the caller holds.
First ==
    /\ Has(model)
    /\ Budget
    /\ \E result \in FirstResults :
          LET options == FirstOptions(Get(call.options))
              statement == SelectStatement(Get(model), options)
          IN /\ call' = [Invoked("First", [options |-> Get(call.options)])
                            EXCEPT !.options = Some(options)]
             /\ executor' = executor \o Sent(statement, StatementFirst(result))
             /\ outcome' = FirstOutcome(result)
    /\ invoked' = invoked + 1
    /\ UNCHANGED <<ret, created, model, orm>>

\* await model.All(options), with the options object the caller holds.
All ==
    /\ Has(model)
    /\ Budget
    /\ call' = Invoked("All", [options |-> Get(call.options)])
    /\ executor' = executor
           \o Sent(SelectStatement(Get(model), Get(call.options)), StatementAll)
    /\ outcome' = Resolved("All")
    /\ invoked' = invoked + 1
    /\ UNCHANGED <<ret, created, model, orm>>

\* await model.Delete(options), with the options object the caller holds.
Delete ==
    /\ Has(model)
    /\ Budget
    /\ call' = Invoked("Delete", [options |-> Get(call.options)])
    /\ executor' = executor
           \o Sent(DeleteStatement(Get(model), Get(call.options)), Run)
    /\ outcome' = Resolved("Delete")
    /\ invoked' = invoked + 1
    /\ UNCHANGED <<ret, created, model, orm>>

\* await model.Update(options)
Update ==
    /\ Has(model)
    /\ Budget
    /\ \E options \in UpdateBundles :
          LET statement == UpdateStatement(Get(model), options)
          IN /\ call' = Invoked("Update", [options |-> options])
             /\ IF statement.status = "thrown"
                THEN /\ outcome' = Failed("Update", statement.message)
                     /\ UNCHANGED executor
                ELSE /\ executor' = executor \o Sent(statement, Run)
                     /\ outcome' = Resolved("Update")
    /\ invoked' = invoked + 1
    /\ UNCHANGED <<ret, created, model, orm>>

OpsNext ==
    \/ CreateTable \/ DropTable \/ InsertOne \/ InsertMany \/ First \/ All
    \/ Delete \/ Update \/ Upsert \/ ReadCreateTableDefinition

OpsSpec == OpsInit /\ [][OpsNext]_vars

----------------------------------------------------------------------------
(* Reading a generated statement back *)

\* First position of sub in s, 0 when absent.
IndexOf(s, sub) ==
    LET hits == {i \in 1..(Len(s) - Len(sub) + 1) :
                    SubSeq(s, i, i + Len(sub) - 1) = sub}
    IN IF hits = {} THEN 0 ELSE CHOOSE i \in hits : \A j \in hits : i <= j

Contains(s, sub) == IndexOf(s, sub) > 0

PlaceholderPositions(q) == {i \in 1..Len(q) : SubSeq(q, i, i) = "?"}

\* Position of the i-th placeholder, left to right.
PlaceholderAt(q, i) ==
    LET positions == PlaceholderPositions(q)
    IN CHOOSE p \in positions : Cardinality({r \in positions : r <= p}) = i

RECURSIVE Split(_, _)
Split(s, sep) ==
    LET i == IndexOf(s, sep)
    IN IF i = 0 THEN <<s>>
       ELSE <<SubSeq(s, 1, i - 1)>> \o Split(SubSeq(s, i + Len(sep), Len(s)), sep)

\* The identifier that ends at position e.
WordEndingAt(q, e) ==
    LET breaks == {j \in 1..e : SubSeq(q, j, j) \in {" ", "("}}
        start == IF breaks = {} THEN 1
                 ELSE 1 + CHOOSE j \in breaks : \A k \in breaks : k <= j
    IN SubSeq(q, start, e)

\* The parenthesised column list of an INSERT.
InsertColumns(q) ==
    LET open == IndexOf(q, " (")
        rest == SubSeq(q, open + 2, Len(q))
    IN Split(SubSeq(rest, 1, IndexOf(rest, ")") - 1), ", ")

\* The clause the placeholder at position p belongs to.
SectionOf(q, p) ==
    IF Contains(q, " WHERE ") /\ p > IndexOf(q, " WHERE ") THEN "where"
    ELSE IF Contains(q, " SET ") /\ p > IndexOf(q, " SET ") THEN "set"
    ELSE IF Contains(q, " VALUES ") /\ p > IndexOf(q, " VALUES ") THEN "values"
    ELSE "none"

\* The column the i-th placeholder stands for.
ColumnOf(q, i) ==
    LET p == PlaceholderAt(q, i)
    IN IF SectionOf(q, p) = "values" THEN InsertColumns(q)[i]
       ELSE IF p > 4 /\ SubSeq(q, p - 3, p) = " = ?" THEN WordEndingAt(q, p - 4)
       ELSE ""

CallOptions == IF Has(call.options) THEN Get(call.options) ELSE EmptyOptions

\* The mapping of the call that supplies the values of a clause.
SupplierOf(section) ==
    CASE section = "where" -> OrEmpty(CallOptions.where)
      [] section = "set" ->
            IF call.type = QueryType.UPSERT
            THEN OrEmpty(CallOptions.upsertOnlyUpdateData)
            ELSE OrEmpty(CallOptions.data)
      [] section = "values" -> OrEmpty(CallOptions.data)
      [] OTHER -> <<>>

\* The values the caller supplied for column col in mapping obj.
SuppliedFor(obj, col) == {obj[k].value : k \in {j \in 1..Len(obj) : obj[j].key = col}}

ValidCall == call.tableName.type = "string" /\ call.tableName.text # ""
Returns == ret.status = "returned"
Throws == ret.status = "thrown"
Finished == ret.status # "pending"

HasEntries(opt) == Has(opt) /\ Len(Get(opt)) >= 1

----------------------------------------------------------------------------
(* Claims *)

FlaggedJson(i) ==
    LET col == ColumnOf(ret.query, i)
    IN /\ call.type \in {QueryType.INSERT, QueryType.INSERT_OR_REPLACE}
       /\ Has(CallOptions.columns)
       /\ col \in DOMAIN Get(CallOptions.columns)
       /\ Get(CallOptions.columns)[col].json

C2_WhereIffEntries ==
    (Returns /\ call.type \in {QueryType.SELECT, QueryType.DELETE,
                               QueryType.UPDATE}) =>
        /\ Contains(ret.query, " WHERE ") <=> HasEntries(CallOptions.where)
        /\ (call.type # QueryType.UPDATE /\ CallOptions.where = Some(<<>>))
              => ret.bindings = <<>>

C2_Witness ==
    /\ Returns
    /\ call.type = QueryType.DELETE
    /\ CallOptions.where = Some(<<>>)
    /\ ret.query = "DELETE FROM " \o Backtick \o "test" \o Backtick

\* C3: insert, insert-or-replace and update fail when data is absent or has
\* no entries, with "Must provide data to insert" / "... to update" once the
\* table name is accepted, and return no statement.
C3_NoDataThrows ==
    (Finished /\ ~HasEntries(CallOptions.data)
        /\ call.type \in {QueryType.INSERT, QueryType.INSERT_OR_REPLACE,
                          QueryType.UPDATE}) =>
        /\ Throws
        /\ ValidCall =>
              ret.message = IF call.type = QueryType.UPDATE
                            THEN "Must provide data to update"
                            ELSE "Must provide data to insert"

C3_Witness ==
    /\ Throws
    /\ call.type = QueryType.INSERT_OR_REPLACE
    /\ CallOptions.data = Some(<<>>)
    /\ ret.message = "Must provide data to insert"

\* C4: with an accepted table name, upsert returns exactly when data,
\* upsertOnlyUpdateData and where are all present and non-empty, and
\* otherwise throws "Must provide data to insert with, ..." .
C4_UpsertNeedsAllThree ==
    (Finished /\ ValidCall /\ call.type = QueryType.UPSERT) =>
        IF /\ HasEntries(CallOptions.data)
           /\ HasEntries(CallOptions.upsertOnlyUpdateData)
           /\ HasEntries(CallOptions.where)
        THEN Returns
        ELSE /\ Throws
             /\ ret.message = "Must provide data to insert with, data to update with, and where keys in Upsert"

C4_Witness ==
    /\ Throws
    /\ ValidCall
    /\ call.type = QueryType.UPSERT
    /\ HasEntries(CallOptions.data)
    /\ HasEntries(CallOptions.upsertOnlyUpdateData)
    /\ CallOptions.where = Some(<<>>)

\* C5: upsert binds all data values, then all upsertOnlyUpdateData values,
\* then all where values; update binds all data values, then all where
\* values; each group in its own iteration order.
C5_BindingGroupOrder ==
    LET valuesOf(opt) == IF Has(opt)
                         THEN [i \in 1..Len(Get(opt)) |-> Get(opt)[i].value]
                         ELSE <<>>
    IN /\ (Returns /\ call.type = QueryType.UPSERT) =>
              ret.bindings = valuesOf(CallOptions.data)
                                \o valuesOf(CallOptions.upsertOnlyUpdateData)
                                \o valuesOf(CallOptions.where)
       /\ (Returns /\ call.type = QueryType.UPDATE) =>
              ret.bindings = valuesOf(CallOptions.data)
                                \o valuesOf(CallOptions.where)

C5_Witness ==
    /\ Returns
    /\ call.type = QueryType.UPSERT
    /\ ret.bindings = <<Bool(TRUE), Num(1), Str("other"), Num(2), Num(3)>>

\* The text between "ON CONFLICT (" and ") DO UPDATE".
ConflictTarget(q) ==
    LET from == IndexOf(q, " ON CONFLICT (") + Len(" ON CONFLICT (")
    IN SubSeq(q, from, IndexOf(q, ") DO UPDATE") - 1)

\* C7: an upsert without a primaryKeys argument conflicts on `id`; a single
\* column name is used verbatim; a list is rendered comma-joined in the
\* order given.
C7_ConflictTarget ==
    (Returns /\ call.type = QueryType.UPSERT) =>
        /\ Contains(ret.query, " ON CONFLICT (")
        /\ ConflictTarget(ret.query) =
              IF ~Has(call.primaryKeys) THEN "id"
              ELSE IF ~Get(call.primaryKeys).isArray
                   THEN Get(call.primaryKeys).names[1]
                   ELSE Join(Get(call.primaryKeys).names, ", ")

C7_Witness ==
    /\ Returns
    /\ call.type = QueryType.UPSERT
    /\ call.primaryKeys = Some([isArray |-> TRUE, names |-> <<"name", "id">>])
    /\ ConflictTarget(ret.query) = "name, id"


\* C8: the table name is validated before the kind: a non-string or empty
\* table name throws "Invalid table name" for every kind, and with a valid
\* table name an unrecognized kind throws; no statement is returned.
C8_TableNameBeforeKind ==
    Finished =>
        /\ ~ValidCall => (Throws /\ ret.message = "Invalid table name")
        /\ (ValidCall /\ call.type \notin
                {QueryType.SELECT, QueryType.INSERT,
                 QueryType.INSERT_OR_REPLACE, QueryType.UPDATE,
                 QueryType.DELETE, QueryType.UPSERT}) =>
              (Throws /\ ret.message # "Invalid table name")

C8_Witness ==
    /\ Throws
    /\ call.type = "INVALID"
    /\ call.tableName = Str("")
    /\ ret.message = "Invalid table name"


\* C9: in every generated select the optional clauses come in the order
\* WHERE, ORDER BY, LIMIT, OFFSET, whichever of them are present.
C9_SelectClauseOrder ==
    (Returns /\ call.type = QueryType.SELECT) =>
        LET at == <<IndexOf(ret.query, " WHERE "), IndexOf(ret.query, " ORDER BY "),
                    IndexOf(ret.query, " LIMIT "), IndexOf(ret.query, " OFFSET ")>>
        IN \A a, b \in 1..4 : (a < b /\ at[a] > 0 /\ at[b] > 0) => at[a] < at[b]

C9_Witness ==
    /\ Returns
    /\ call.type = QueryType.SELECT
    /\ Contains(ret.query, " WHERE ")
    /\ Contains(ret.query, " ORDER BY ")
    /\ Contains(ret.query, " LIMIT ")
    /\ Contains(ret.query, " OFFSET ")

\* C10: a generated select has an OFFSET clause only if it has a LIMIT
\* clause; an offset given without a limit is not emitted.
C10_OffsetOnlyWithLimit ==
    (Returns /\ call.type = QueryType.SELECT) =>
        /\ Contains(ret.query, " OFFSET ") => Contains(ret.query, " LIMIT ")
        /\ (Has(CallOptions.offset) /\ ~Has(CallOptions.limit))
              => ~Contains(ret.query, " OFFSET ")

C10_Witness ==
    /\ Returns
    /\ call.type = QueryType.SELECT
    /\ CallOptions.offset = Some(5)
    /\ ~Has(CallOptions.limit)
    /\ ~Contains(ret.query, " OFFSET ")

\* The primary keys as the caller declared them to the constructor.
DeclaredPrimaryKeys ==
    [i \in 1..Len(Get(created).options.primaryKeys.items) |->
        Get(created).options.primaryKeys.items[i].text]

\* C6: every upsert a Model sends names the model's declared primary keys,
\* comma-joined in declaration order, as its ON CONFLICT target.
C6_ModelUpsertConflictTarget ==
    \A i \in 1..Len(executor) :
        (executor[i].method = "prepare"
            /\ Contains(executor[i].query, " ON CONFLICT (")) =>
            ConflictTarget(executor[i].query) = Join(DeclaredPrimaryKeys, ", ")

C6_Witness ==
    /\ outcome = Resolved("Upsert")
    /\ Has(created)
    /\ Get(created).options.primaryKeys
          = [isArray |-> TRUE, items |-> <<Str("name"), Str("id")>>]
    /\ Len(executor) = 3
    /\ executor[1].method = "prepare"
    /\ ConflictTarget(executor[1].query) = "name, id"

\* s ends with tail.
EndsWith(s, tail) ==
    Len(s) >= Len(tail) /\ SubSeq(s, Len(s) - Len(tail) + 1, Len(s)) = tail

\* C11: whenever a select is given both limit and offset, the value 0
\* included for either, the query ends with " LIMIT <limit> OFFSET <offset>".
C11_LimitAndOffsetEmitted ==
    (Returns /\ call.type = QueryType.SELECT
        /\ Has(CallOptions.limit) /\ Has(CallOptions.offset)) =>
        EndsWith(ret.query,
                 " LIMIT " \o ToString(Get(CallOptions.limit))
                     \o " OFFSET " \o ToString(Get(CallOptions.offset)))

\* The rendering C12 states for one order spec.
StatedRendering(o) ==
    IF o.kind = "name" THEN "\"" \o o.column \o "\""
    ELSE "\"" \o o.column \o "\""
         \o (IF o.descending = TRUE THEN " DESC" ELSE "")
         \o (IF o.nullLast = TRUE THEN " NULLS LAST" ELSE "")

\* C12: transformOrderBy renders a bare column name as "<name>", an object
\* as "<column>" followed by " DESC" iff descending is true and then
\* " NULLS LAST" iff nullLast is true, and a list as the ", "-joined
\* renderings of its elements in input order: as many pieces as elements,
\* the i-th piece rendering the i-th element.
C12_OrderByRendering ==
    Returns =>
        LET orderBy == Get(CallOptions.orderBy)
            pieces == Split(ret.query, ", ")
        IN IF ~orderBy.isArray
           THEN ret.query = StatedRendering(orderBy.items[1])
           ELSE IF Len(orderBy.items) = 0
           THEN ret.query = ""
           ELSE /\ Len(pieces) = Len(orderBy.items)
                /\ \A i \in 1..Len(pieces) :
                      pieces[i] = StatedRendering(orderBy.items[i])

\* A list that repeats an element and mixes a bare name with an object.
C12_Witness ==
    /\ Returns
    /\ Get(CallOptions.orderBy) =
          [isArray |-> TRUE,
           items |-> <<OrderObject("id", TRUE, TRUE), OrderName("id2")>>]
    /\ ret.query = "\"id\" DESC NULLS LAST, \"id2\""

\* C13: when an insert's data holds a boolean for a column declared
\* DataTypes.BOOLEAN, the binding produced for it is the integer 1 for true
\* and 0 for false, not the boolean itself.
C13_BooleanBoundAsInteger ==
    (Returns /\ call.type \in {QueryType.INSERT, QueryType.INSERT_OR_REPLACE}
        /\ Has(CallOptions.columns)) =>
        LET data == Get(CallOptions.data)
            columns == Get(CallOptions.columns)
        IN \A i \in 1..Len(data) :
              (columns[data[i].key].type = DataTypes.BOOLEAN
                  /\ data[i].value.type = "boolean") =>
                  ret.bindings[i] = IF data[i].value = Bool(TRUE)
                                    THEN Num(1) ELSE Num(0)

\* The arguments the model was constructed with, and what the claims say of
\* them.
Args == Get(created)
ValidD1Orm == Args.options.D1Orm = D1OrmInstance

\* The declared primary keys as a list: a single key is a list of one, an
\* absent option the empty list.
DeclaredKeyList ==
    IF Args.options.primaryKeys.isArray THEN Args.options.primaryKeys.items
    ELSE SelectSeq(Args.options.primaryKeys.items,
                   LAMBDA k : k.type # "undefined")

\* The message of the first check C14 lists that the arguments fail, ""
\* when they pass the checks that come before the autoIncrement checks.
StatedFirstFailure ==
    IF Args.options.tableName.type # "string" \/ Args.options.tableName.text = ""
    THEN "Options.tableName must be a string"
    ELSE IF DeclaredKeyList = <<>>
               \/ \E i \in 1..Len(DeclaredKeyList) :
                     DeclaredKeyList[i].type # "string"
                         \/ DeclaredKeyList[i].text = ""
    THEN "Options.primaryKeys must be a string or an array of strings"
    ELSE IF ~Has(Args.columns)
    THEN "Model columns must be defined"
    ELSE IF Get(Args.columns) = <<>>
    THEN "Model columns cannot be empty"
    ELSE IF \E i \in 1..Len(DeclaredKeyList) :
               ~\E j \in 1..Len(Get(Args.columns)) :
                    Get(Args.columns)[j].key = DeclaredKeyList[i].text
    THEN "Options.primaryKeys includes a column that does not exist"
    ELSE ""

AutoIncrementMessages ==
    {"Options.autoIncrement was provided, but was not a string",
     "Options.autoIncrement was provided, but was not a primary key",
     "Options.autoIncrement was provided, but there are multiple primary keys",
     "Options.autoIncrement was provided, but is not a column",
     "Options.autoIncrement was provided, but is not an integer column"}

\* C14: construction reports only the first failing check, in the order
\* tableName non-empty string, primaryKeys a non-empty list of non-empty
\* strings, columns defined and non-empty, every primary key a column, and
\* only then the autoIncrement checks.
C14_FirstFailingCheck ==
    (Has(created) /\ ValidD1Orm) =>
        IF StatedFirstFailure # ""
        THEN ~Has(model) /\ outcome = Failed("new Model", StatedFirstFailure)
        ELSE Has(model) \/ outcome.message \in AutoIncrementMessages

\* The autoIncrement option is set: present and not falsy, which is what the
\* constructor's `if (this.#autoIncrementColumn)` asks.
AutoIncrementGiven ==
    Has(Args.options.autoIncrement) /\ Truthy(Get(Args.options.autoIncrement))

\* The type of the column the autoIncrement option references.
ReferencedColumnTypes ==
    {OrEmpty(Args.columns)[j].value.type :
        j \in {k \in 1..Len(OrEmpty(Args.columns)) :
                  OrEmpty(Args.columns)[k].key
                      = Get(Args.options.autoIncrement).text}}

\* The first of the four cases of C15 that applies, "" when none does.
StatedAutoIncrementFailure ==
    IF Get(Args.options.autoIncrement).type # "string"
    THEN "Options.autoIncrement was provided, but was not a string"
    ELSE IF \A i \in 1..Len(DeclaredKeyList) :
               DeclaredKeyList[i] # Get(Args.options.autoIncrement)
    THEN "Options.autoIncrement was provided, but was not a primary key"
    ELSE IF Len(DeclaredKeyList) > 1
    THEN "Options.autoIncrement was provided, but there are multiple primary keys"
    ELSE IF ReferencedColumnTypes # {"integer"}
    THEN "Options.autoIncrement was provided, but is not an integer column"
    ELSE ""

UniqueKeyUndefined ==
    \E g \in 1..Len(OrEmpty(Args.options.uniqueKeys)) :
        \E n \in 1..Len(Get(Args.options.uniqueKeys)[g]) :
            ~\E j \in 1..Len(OrEmpty(Args.columns)) :
                 Get(Args.columns)[j].key = Get(Args.options.uniqueKeys)[g][n]

\* C16: when some uniqueKeys group names a column that is not defined in
\* columns, construction fails: no Model instance has a uniqueKeys that
\* references an undefined column.
C16_UniqueKeysAreColumns ==
    (Has(created) /\ UniqueKeyUndefined) => ~Has(model)

\* The number of places at which sub occurs in s.
CountOf(s, sub) ==
    Cardinality({i \in 1..(Len(s) - Len(sub) + 1) :
                    SubSeq(s, i, i + Len(sub) - 1) = sub})

\* The definition string read from the constructed model.
DefinitionRead == Has(model) /\ ret.status = "returned"

DeclaredKeyTexts ==
    [i \in 1..Len(DeclaredKeyList) |-> DeclaredKeyList[i].text]

\* C17: the createTableDefinition of a constructed Model holds exactly one
\* PRIMARY KEY clause: with an auto-increment column set, the inline
\* " PRIMARY KEY AUTOINCREMENT" on that column and no trailing clause;
\* otherwise one "PRIMARY KEY (<keys>)" right after the last column, listing
\* the declared primary keys in declaration order.
C17_OnePrimaryKeyClause ==
    DefinitionRead =>
        /\ CountOf(ret.query, "PRIMARY KEY") = 1
        /\ IF AutoIncrementGiven
           THEN /\ \/ Contains(ret.query,
                               "(" \o Get(Args.options.autoIncrement).text
                                   \o " integer PRIMARY KEY AUTOINCREMENT")
                   \/ Contains(ret.query,
                               ", " \o Get(Args.options.autoIncrement).text
                                    \o " integer PRIMARY KEY AUTOINCREMENT")
                /\ ~Contains(ret.query, "PRIMARY KEY (")
           ELSE /\ ~Contains(ret.query, "AUTOINCREMENT")
                /\ Contains(ret.query,
                            ", PRIMARY KEY (" \o Join(DeclaredKeyTexts, ", ")
                                \o ")")
                /\ Len(Split(SubSeq(ret.query, 1,
                                    IndexOf(ret.query, ", PRIMARY KEY (") - 1),
                             ", "))
                      = Len(Get(Args.columns))

\* Both shapes are read: a model with two declared keys in the order name,
\* id states its sole clause in that order.
C17_Witness ==
    /\ DefinitionRead
    /\ ~AutoIncrementGiven
    /\ DeclaredKeyTexts = <<"name", "id">>
    /\ Contains(ret.query, "name text, PRIMARY KEY (name, id)")

C17_WitnessAutoIncrement ==
    /\ DefinitionRead
    /\ AutoIncrementGiven
    /\ Contains(ret.query, "(id integer PRIMARY KEY AUTOINCREMENT, name text")

\* The withRowId option is set to true.
WithRowId == Args.options.withRowId = Some(Bool(TRUE))

\* C18: createTableDefinition ends with " WITHOUT ROWID" (before the closing
\* semicolon) if and only if the model has no auto-increment column and
\* withRowId is not set to true.
C18_WithoutRowId ==
    DefinitionRead =>
        ((EndsWith(ret.query, " WITHOUT ROWID;")
             \/ EndsWith(ret.query, " WITHOUT ROWID"))
            <=> (~AutoIncrementGiven /\ ~WithRowId))

\* C19: constructing a Model with both autoIncrement and withRowId: true
\* fails, also when the autoIncrement configuration is otherwise valid.
C19_AutoIncrementExcludesRowId ==
    (Has(created) /\ AutoIncrementGiven /\ WithRowId) => ~Has(model)

\* The piece of the definition read that defines the j-th column, without
\* the text that closes the statement.
ColumnPiece(j) ==
    LET piece == Split(ret.query, ", ")[j]
    IN IF EndsWith(piece, ");") THEN SubSeq(piece, 1, Len(piece) - 2) ELSE piece

\* The text that follows " DEFAULT " in a piece.
DefaultLiteral(piece) ==
    SubSeq(piece, IndexOf(piece, " DEFAULT ") + Len(" DEFAULT "), Len(piece))

\* The literal C20 states for a default value.
StatedLiteral(v) == IF v.type = "string" THEN "'" \o v.text \o "'" ELSE v.text

\* C20: a column's " DEFAULT <literal>" is emitted iff a default value is
\* present; a string default is wrapped in single quotes, a numeric or
\* boolean default is rendered bare.
C20_DefaultLiteral ==
    DefinitionRead =>
        \A j \in 1..Len(Get(model).columns) :
            LET column == Get(model).columns[j].value
            IN /\ Contains(ColumnPiece(j), " DEFAULT ")
                     <=> Has(column.defaultValue)
               /\ Has(column.defaultValue) =>
                     DefaultLiteral(ColumnPiece(j))
                         = StatedLiteral(Get(column.defaultValue))

\* C21 (its first clause): a Model can be constructed without a D1Orm:
\* options that name no D1Orm and are otherwise valid construct a Model.
C21_ConstructedWithoutOrm ==
    (Has(created) /\ Args.options.D1Orm.class = "undefined"
        /\ StatedFirstFailure = ""
        /\ (AutoIncrementGiven => StatedAutoIncrementFailure = "")) =>
        Has(model)

InvalidDatabaseMessage ==
    "Invalid database, should contain prepare, dump, batch, and exec methods"

\* C22: new D1Orm(database) fails with the invalid-database message whenever
\* the database lacks a function under any one of prepare, dump, batch and
\* exec, and succeeds whenever all four are functions; a Model rejects a
\* D1Orm option that is given and is not a D1Orm instance.
C22_DatabaseValidated ==
    /\ Has(orm.database) =>
          IF \E m \in {"prepare", "dump", "batch", "exec"} :
                m \notin Get(orm.database).methods
          THEN /\ ~Has(orm.instance)
               /\ outcome = Failed("new D1Orm", InvalidDatabaseMessage)
          ELSE Has(orm.instance)
    /\ (Has(created) /\ Args.options.D1Orm.class = "Object") =>
          /\ ~Has(model)
          /\ outcome = Failed("new Model",
                              "Options.D1Orm is not an instance of D1Orm")

\* A database with three of the methods and a non-function exec is refused.
C22_Witness ==
    /\ orm.database = Some([class |-> "Object",
                            methods |-> {"prepare", "dump", "batch"},
                            others |-> {"exec"}])
    /\ outcome = Failed("new D1Orm", InvalidDatabaseMessage)

C22_WitnessAccepted ==
    /\ Has(orm.instance)
    /\ Has(created)
    /\ Args.options.D1Orm.class = "Object"
    /\ ~Has(model)

\* The step invokes the Model operation op.
OperationStep(op) == invoked' # invoked /\ call'.type = op

\* The calls the executor receives during the step.
Issued == SubSeq(executor', Len(executor) + 1, Len(executor'))

StartsWith(s, head) == Len(s) >= Len(head) /\ SubSeq(s, 1, Len(head)) = head

\* C23: CreateTable with strategy "alter" fails with "Alter strategy is not
\* implemented" and the executor's exec is not called; with "default" exec is
\* called exactly once, with the model's createTableDefinition; with "force"
\* only exec is called, and the text it is given starts with the DROP TABLE
\* IF EXISTS of the model's table and ends with the CREATE TABLE text.
C23_CreateTableStrategies ==
    [][OperationStep("CreateTable") =>
          LET strategy == call'.args.strategy
              definition == createTableDefinition(Get(model))
              text == IF Issued = <<>> THEN "" ELSE Issued[1].query
              drop == SubSeq(text, 1, Len(text) - Len(definition))
          IN /\ strategy = "alter" =>
                   /\ Issued = <<>>
                   /\ outcome' = Failed("CreateTable",
                                        "Alter strategy is not implemented")
             /\ strategy = "default" =>
                   /\ Issued = <<Exec(definition)>>
                   /\ outcome' = Resolved("CreateTable")
             /\ strategy = "force" =>
                   /\ Len(Issued) = 1
                   /\ Issued[1].method = "exec"
                   /\ EndsWith(text, definition)
                   /\ StartsWith(drop, "DROP TABLE IF EXISTS ")
                   /\ Contains(drop, Get(model).tableName.text)
                   /\ ~Contains(drop, "CREATE TABLE")
                   /\ outcome' = Resolved("CreateTable")]_vars

\* A forced CreateTable has handed its statement to exec.
C23_Witness ==
    /\ call.type = "CreateTable"
    /\ call.args.strategy = "force"
    /\ Len(executor) = 1
    /\ executor[1].method = "exec"

C23_WitnessAlter ==
    /\ call.type = "CreateTable"
    /\ call.args.strategy = "alter"
    /\ outcome.status = "rejected"
    /\ executor = <<>>

\* What the executor's first() gave the last First.
FirstResult == executor[Len(executor)].result

\* C24: First returns null when the executor's first() fails with the
\* message "D1_NORESULTS"; any other failure of first() reaches the caller
\* with the same message, and a result first() gives is returned as it is.
C24_FirstNullOnNoResults ==
    call.type = "First" =>
        /\ executor[Len(executor)].method = "first"
        /\ (FirstResult.status = "rejected"
               /\ FirstResult.message = "D1_NORESULTS") =>
              outcome = ResolvedWith("First", Null)
        /\ (FirstResult.status = "rejected"
               /\ FirstResult.message # "D1_NORESULTS") =>
              outcome = Failed("First", FirstResult.message)
        /\ FirstResult.status = "resolved" =>
              outcome = ResolvedWith("First", FirstResult.value)

\* first() failed with D1_NORESULTS and First returned null.
C24_Witness ==
    /\ call.type = "First"
    /\ FirstResult = Throws_("D1_NORESULTS")
    /\ outcome.status = "resolved"
    /\ outcome.value = Null

C24_WitnessPropagated ==
    /\ call.type = "First"
    /\ FirstResult = Throws_("D1_NORESULTS: no rows")
    /\ outcome.status = "rejected"

\* C26: once a Model is constructed, no step (an operation of the Model or
\* a read of createTableDefinition) changes its tableName, columns,
\* primaryKeys or uniqueKeys, and the text a read of createTableDefinition
\* has given is the text the model defines after the step as well.
C26_OperationsKeepModel ==
    [][Has(model) =>
          /\ Has(model')
          /\ Get(model').tableName = Get(model).tableName
          /\ Get(model').columns = Get(model).columns
          /\ Get(model').primaryKeys = Get(model).primaryKeys
          /\ Get(model').uniqueKeys = Get(model).uniqueKeys
          /\ ret'.status = "returned" =>
                /\ ret'.query = createTableDefinition(Get(model))
                /\ ret'.query = createTableDefinition(Get(model'))]_vars

\* createTableDefinition has been read and an operation has run to its end.
C26_Witness ==
    /\ DefinitionRead
    /\ invoked >= 1
    /\ call.type \in {"DropTable", "InsertMany", "First", "Update"}
    /\ outcome.status = "resolved"
    /\ Get(model).tableName = Args.options.tableName

\* The options of the call without the clauses only a select reads.
WithoutSelectClauses ==
    IF Has(call.options)
    THEN Some([Get(call.options) EXCEPT !.limit = None, !.offset = None,
                                        !.orderBy = None])
    ELSE None

\* C27: for delete, insert, insert-or-replace, update and upsert the outcome
\* (query and bindings, or failure) is the outcome of the same call without
\* limit, offset and orderBy; for every kind but upsert it is the outcome of
\* the same call without the primaryKeys argument.
C27_InapplicableClausesIgnored ==
    ret.status # "pending" =>
        /\ call.type \in {QueryType.DELETE, QueryType.INSERT,
                          QueryType.INSERT_OR_REPLACE, QueryType.UPDATE,
                          QueryType.UPSERT} =>
              ret = GenerateQuery(call.type, call.tableName,
                                  WithoutSelectClauses, call.primaryKeys)
        /\ call.type # QueryType.UPSERT =>
              ret = GenerateQuery(call.type, call.tableName, call.options, None)

\* A delete called with limit, offset, orderBy and primaryKeys has returned.
C27_Witness ==
    /\ ret.status = "returned"
    /\ call.type = QueryType.DELETE
    /\ Has(call.options)
    /\ Has(Get(call.options).limit)
    /\ Has(Get(call.options).offset)
    /\ Has(Get(call.options).orderBy)
    /\ Has(Get(call.options).where)
    /\ Has(call.primaryKeys)

C27_WitnessUpsert ==
    /\ ret.status = "returned"
    /\ call.type = QueryType.UPSERT
    /\ Has(Get(call.options).limit)
    /\ Has(Get(call.options).orderBy)

DataOperations == {"InsertOne", "First", "All", "Delete", "Update", "Upsert"}

\* The statement GenerateQuery gives the operation the step invokes.
Generated ==
    LET m == Get(model)
        a == call'.args
    IN CASE call'.type = "InsertOne" ->
                GenerateQuery(IF a.orReplace THEN QueryType.INSERT_OR_REPLACE
                              ELSE QueryType.INSERT,
                              m.tableName,
                              Some([EmptyOptions EXCEPT !.data = Some(a.data)]),
                              None)
         [] call'.type = "First" ->
                GenerateQuery(QueryType.SELECT, m.tableName,
                              Some([a.options EXCEPT !.limit = Some(1)]), None)
         [] call'.type = "All" ->
                GenerateQuery(QueryType.SELECT, m.tableName, Some(a.options),
                              None)
         [] call'.type = "Delete" ->
                GenerateQuery(QueryType.DELETE, m.tableName, Some(a.options),
                              None)
         [] call'.type = "Update" ->
                GenerateQuery(QueryType.UPDATE, m.tableName, Some(a.options),
                              None)
         [] call'.type = "Upsert" -> UpsertStatement(m, a.options)

\* The execution method C28 states for each data operation.
StatedExecution ==
    CASE call'.type = "First" -> "first"
      [] call'.type = "All" -> "all"
      [] OTHER -> "run"

\* C28: a data operation (InsertOne, First, All, Delete, Update, Upsert)
\* whose statement is generated calls prepare once with the generated query,
\* then bind with the generated bindings, in their order and number, then
\* one execution method (first for First, all for All, run for the others),
\* and nothing else; when the generation fails the executor is not called
\* and the operation fails with the generation's message.
C28_PrepareBindExecute ==
    [][(invoked' # invoked /\ call'.type \in DataOperations) =>
          IF Generated.status = "thrown"
          THEN /\ Issued = <<>>
               /\ outcome' = Failed(call'.type, Generated.message)
          ELSE /\ Len(Issued) = 3
               /\ Issued[1] = Prepare(Generated.query)
               /\ Issued[2] = Bind(Generated.bindings)
               /\ Issued[3].method = StatedExecution]_vars

\* An update with one binding for its data and one for its where clause has
\* been prepared, bound and run.
C28_Witness ==
    /\ call.type = "Update"
    /\ Len(executor) = 3
    /\ executor[1].method = "prepare"
    /\ executor[2].method = "bind"
    /\ Len(executor[2].bindings) = 2
    /\ executor[3].method = "run"

\* An insert without data has failed and the executor was not called.
C28_WitnessFailed ==
    /\ call.type = "InsertOne"
    /\ outcome.status = "rejected"
    /\ executor = <<>>

\* C29: First leaves the options object its caller passes as it was (no
\* limit key is added to it), so that an All or a Delete that follows First
\* with the same object generates the statement of the object as it was
\* before First.
C29_FirstKeepsCallerOptions ==
    [][/\ OperationStep("First") => call'.options = call.options
       /\ (OperationStep("All") /\ call.type = "First") =>
             Issued[1].query
                 = GenerateQuery(QueryType.SELECT, Get(model).tableName,
                                 Some(call.args.options), None).query
       /\ (OperationStep("Delete") /\ call.type = "First") =>
             Issued[1].query
                 = GenerateQuery(QueryType.DELETE, Get(model).tableName,
                                 Some(call.args.options), None).query]_vars

\* The statement GenerateQuery gives for row i of the InsertMany the step
\* invokes.
RowStatement(i) ==
    GenerateQuery(IF call'.args.orReplace THEN QueryType.INSERT_OR_REPLACE
                  ELSE QueryType.INSERT,
                  Get(model).tableName,
                  Some([EmptyOptions EXCEPT !.data = Some(call'.args.data[i])]),
                  None)

BatchCalls == {j \in 1..Len(Issued) : Issued[j].method = "batch"}

\* C30: InsertMany calls batch once, after everything else, with one
\* statement per row in the order of the rows, each the insert statement of
\* its row; when a row has no data InsertMany fails, batch is not called and
\* no statement is executed.
C30_InsertManyOneBatch ==
    [][OperationStep("InsertMany") =>
          LET rows == call'.args.data
          IN IF \E i \in 1..Len(rows) : Len(rows[i]) = 0
             THEN /\ outcome'.status = "rejected"
                  /\ \A j \in 1..Len(Issued) :
                        Issued[j].method \in {"prepare", "bind"}
             ELSE /\ outcome' = Resolved("InsertMany")
                  /\ BatchCalls = {Len(Issued)}
                  /\ \A j \in 1..Len(Issued) :
                        Issued[j].method \in {"prepare", "bind", "batch"}
                  /\ Len(Issued[Len(Issued)].statements) = Len(rows)
                  /\ \A i \in 1..Len(rows) :
                        Issued[Len(Issued)].statements[i]
                            = [query |-> RowStatement(i).query,
                               bindings |-> RowStatement(i).bindings]]_vars

\* Two different rows have been sent in one batch.
C30_Witness ==
    /\ call.type = "InsertMany"
    /\ Len(call.args.data) = 2
    /\ call.args.data[1] # call.args.data[2]
    /\ outcome.status = "resolved"
    /\ executor[Len(executor)].method = "batch"
    /\ Len(executor[Len(executor)].statements) = 2

\* The second of two rows has no data: the first was prepared and bound, and
\* InsertMany failed without a batch.
C30_WitnessFailed ==
    /\ call.type = "InsertMany"
    /\ Len(call.args.data) = 2
    /\ Len(call.args.data[1]) = 1
    /\ Len(call.args.data[2]) = 0
    /\ outcome.status = "rejected"
    /\ Len(executor) = 2

====
